---- MODULE Spec2Model ----
(***************************************************************************)
(* A model of the agent core of src/agent.py: the Toolbox registry, the    *)
(* process-wide base tool set, tool-call execution against the shared      *)
(* state, the transcript built from the step log, and CodeAgent.run.       *)
(***************************************************************************)
EXTENDS Integers, Sequences, FiniteSets, TLC

VARIABLES
    toolboxes,                  \* Toolbox instance -> its _tools dict (name -> tool)
    HUGGINGFACE_DEFAULT_TOOLS,  \* module global: the cached base set
    tools_are_initialized,      \* module global _tools_are_initialized
    buildCount,                 \* history: completed calls of setup_default_tools
    lastOp,                     \* history: the last Toolbox operation and how it ended
    state,                      \* Agent.state: whether the attribute is set, and its entries
    call,                       \* history: the last execute_tool_call and how it ended
    system_prompt_template,     \* Agent.system_prompt_template
    system_prompt,              \* Agent.system_prompt
    task,                       \* Agent.task
    logs,                       \* Agent.logs: the step log
    pc,                         \* where CodeAgent.run stands
    run,                        \* the arguments of the current run
    llm_output,                 \* local of run: the engine's answer, until it is interpreted
    code_action,                \* local of run: the parsed code, until it is executed
    result,                     \* how the current run ended: returned or raised, and what
    phases,                     \* history: the phases the current run entered, in order
    calls,                      \* history: calls of engine, parser and executor in this run
    memory,                     \* history: the last transcript built from the step log
    agents,                     \* Agent instance -> the Toolbox instance its _toolbox refers to
    construction,               \* history: the last Agent.__init__ and what it did
    parsed                      \* a text handed to a tool-call parser, and what the parser gave

tbVars == <<toolboxes, HUGGINGFACE_DEFAULT_TOOLS, tools_are_initialized, buildCount, lastOp>>

execVars == <<state, call>>

runVars == <<system_prompt_template, system_prompt, task, logs, pc, run, llm_output,
             code_action, result, phases, calls>>

agentVars == <<agents, construction>>

vars == <<toolboxes, HUGGINGFACE_DEFAULT_TOOLS, tools_are_initialized, buildCount, lastOp,
          state, call, system_prompt_template, system_prompt, task, logs, pc, run,
          llm_output, code_action, result, phases, calls, memory, agents, construction,
          parsed>>

----------------------------------------------------------------------------
(* Bounds *)

\* how many entries of TASK_MAPPING the modelled base set holds
NumBaseTools == 2
\* distinct tool objects per (name, kind)
MaxToolId == 1
\* longest tool list handed to the Toolbox constructor
MaxInitTools == 2
\* how many variable names the shared state may hold
MaxStateVars == 2
\* how many parameters an argument mapping may name
MaxArgs == 2
\* longest model output, in tokens
MaxOutputLen == 4
\* how many step records follow the initialization entry of a step log
MaxSteps == 2
\* how many fields the step records of one log carry in total
MaxFields == 3

----------------------------------------------------------------------------
(* Dictionaries: a dict is a function whose domain is its key set *)

EmptyDict == [k \in {} |-> 0]

Put(d, k, v) == [n \in (DOMAIN d) \cup {k} |-> IF n = k THEN v ELSE d[n]]

Del(d, k) == [n \in (DOMAIN d) \ {k} |-> d[n]]

----------------------------------------------------------------------------
(* Tools *)

\* keys of TASK_MAPPING; the interpreter entry is listed first so that every
\* bounded base set holds the one name add_base_tools treats specially
TASK_MAPPING ==
    <<"python_interpreter", "document-question-answering", "image-question-answering",
      "speech-to-text", "text-to-speech", "translation">>

BaseNames == {TASK_MAPPING[i] : i \in 1..NumBaseTools}

UserNames == {"x"}

Names == UserNames \cup BaseNames

Toolboxes == {"tb1", "tb2"}

\* kind "Tool": isinstance(tool, Tool); kind "PreTool": a deferred reference
ToolObjects == [name : Names, kind : {"Tool", "PreTool"}, id : 1..MaxToolId]

PreTool(n) == [name |-> n, kind |-> "PreTool", id |-> 1]

load_tool(t) == [name |-> t.name, kind |-> "Tool", id |-> t.id]

setup_default_tools == [n \in BaseNames |-> PreTool(n)]

\* Toolbox._load_tools_if_needed
load_tools_if_needed(tools) ==
    [n \in DOMAIN tools |-> IF tools[n].kind # "Tool" THEN load_tool(tools[n]) ELSE tools[n]]

\* Toolbox.add_tool on a dict: the dict after the call and the error raised
add_tool_mutant_overwrite(tools, t) ==
    IF t.name \in DOMAIN tools
    THEN [tools |-> Put(tools, t.name, t), err |-> "KeyError_exists"]
    ELSE [tools |-> Put(tools, t.name, t), err |-> "none"]

add_tool(tools, t) ==
    IF t.name \in DOMAIN tools
    THEN [tools |-> tools, err |-> "KeyError_exists"]
    ELSE [tools |-> Put(tools, t.name, t), err |-> "none"]

\* Toolbox.remove_tool
remove_tool(tools, n) ==
    IF n \notin DOMAIN tools
    THEN [tools |-> tools, err |-> "KeyError_not_found"]
    ELSE [tools |-> Del(tools, n), err |-> "none"]

\* Toolbox.update_tool
update_tool(tools, t) ==
    IF t.name \notin DOMAIN tools
    THEN [tools |-> tools, err |-> "KeyError_not_found"]
    ELSE [tools |-> Put(tools, t.name, t), err |-> "none"]

\* {tool.name: tool for tool in tools}: later list entries overwrite earlier ones
RECURSIVE DictOfTools(_)
DictOfTools(ts) ==
    IF ts = <<>> THEN EmptyDict
    ELSE LET t == ts[Len(ts)]
         IN  Put(DictOfTools(SubSeq(ts, 1, Len(ts) - 1)), t.name, t)

HasDuplicateName(ts) == \E i, j \in 1..Len(ts) : i < j /\ ts[i].name = ts[j].name

\* the loop of add_base_tools over the cached set, in dict (insertion) order;
\* it stops at the first add_tool that raises
RECURSIVE AddBaseLoop(_, _, _, _)
AddBaseLoop(tools, cache, add_python_interpreter, i) ==
    IF i > Len(TASK_MAPPING) THEN [tools |-> tools, err |-> "none"]
    ELSE IF TASK_MAPPING[i] \notin DOMAIN cache
         THEN AddBaseLoop(tools, cache, add_python_interpreter, i + 1)
    ELSE LET tool == cache[TASK_MAPPING[i]]
         IN  IF tool.name # "python_interpreter" \/ add_python_interpreter
             THEN LET r == add_tool(tools, tool)
                  IN  IF r.err # "none" THEN r
                      ELSE AddBaseLoop(r.tools, cache, add_python_interpreter, i + 1)
             ELSE AddBaseLoop(tools, cache, add_python_interpreter, i + 1)

\* Toolbox.add_base_tools on a dict, given the globals and whether
\* setup_default_tools completes: the dict, the globals and the error after it
add_base_tools_mutant_flag_never_set(tools, cache, initialized, add_python_interpreter, setupOk) ==
    IF ~setupOk
    THEN [tools |-> tools, cache |-> cache, initialized |-> initialized,
          built |-> 0, err |-> "SetupError"]
    ELSE LET r == AddBaseLoop(tools, setup_default_tools, add_python_interpreter, 1)
         IN  [tools |-> IF r.err = "none" THEN load_tools_if_needed(r.tools) ELSE r.tools,
              cache |-> setup_default_tools, initialized |-> FALSE,
              built |-> 1, err |-> r.err]

add_base_tools(tools, cache, initialized, add_python_interpreter, setupOk) ==
    IF ~initialized /\ ~setupOk
    THEN [tools |-> tools, cache |-> cache, initialized |-> initialized,
          built |-> 0, err |-> "SetupError"]
    ELSE LET c == IF initialized THEN cache ELSE setup_default_tools
             r == AddBaseLoop(tools, c, add_python_interpreter, 1)
         IN  [tools |-> IF r.err = "none" THEN load_tools_if_needed(r.tools) ELSE r.tools,
              cache |-> c, initialized |-> TRUE,
              built |-> IF initialized THEN 0 ELSE 1, err |-> r.err]

----------------------------------------------------------------------------
(* Toolbox operations *)

\* replaced: the operation stored a tool under a name the dict already held
Op(op, box, name, err, replaced) ==
    [op |-> op, box |-> box, name |-> name, err |-> err, replaced |-> replaced]

ToolLists == UNION {[1..n -> ToolObjects] : n \in 0..MaxInitTools}

\* Toolbox.__init__
NewToolbox(b, ts, add_base, setupOk) ==
    /\ b \notin DOMAIN toolboxes
    /\ LET d == DictOfTools(ts)
           r == IF add_base
                THEN add_base_tools(d, HUGGINGFACE_DEFAULT_TOOLS, tools_are_initialized,
                                    FALSE, setupOk)
                ELSE [tools |-> d, cache |-> HUGGINGFACE_DEFAULT_TOOLS,
                      initialized |-> tools_are_initialized, built |-> 0, err |-> "none"]
       IN  /\ toolboxes' = IF r.err = "none"
                           THEN Put(toolboxes, b, load_tools_if_needed(r.tools))
                           ELSE toolboxes
           /\ HUGGINGFACE_DEFAULT_TOOLS' = r.cache
           /\ tools_are_initialized' = r.initialized
           /\ buildCount' = buildCount + r.built
           /\ lastOp' = Op("Toolbox", b, "none", r.err, HasDuplicateName(ts))
    /\ UNCHANGED <<execVars, runVars, memory, agentVars, parsed>>

\* Toolbox.add_base_tools
AddBaseTools(b, add_python_interpreter, setupOk) ==
    /\ b \in DOMAIN toolboxes
    /\ LET r == add_base_tools(toolboxes[b], HUGGINGFACE_DEFAULT_TOOLS,
                               tools_are_initialized, add_python_interpreter, setupOk)
       IN  /\ toolboxes' = [toolboxes EXCEPT ![b] = r.tools]
           /\ HUGGINGFACE_DEFAULT_TOOLS' = r.cache
           /\ tools_are_initialized' = r.initialized
           /\ buildCount' = buildCount + r.built
           /\ lastOp' = Op("add_base_tools", b, "none", r.err, FALSE)
    /\ UNCHANGED <<execVars, runVars, memory, agentVars, parsed>>

\* Toolbox.add_tool
AddTool(b, t) ==
    /\ b \in DOMAIN toolboxes
    /\ LET r == add_tool(toolboxes[b], t)
       IN  /\ toolboxes' = [toolboxes EXCEPT ![b] = r.tools]
           /\ lastOp' = Op("add_tool", b, t.name, r.err,
                           t.name \in DOMAIN toolboxes[b] /\ r.tools # toolboxes[b])
    /\ UNCHANGED <<HUGGINGFACE_DEFAULT_TOOLS, tools_are_initialized, buildCount>>
    /\ UNCHANGED <<execVars, runVars, memory, agentVars, parsed>>

\* Toolbox.remove_tool
RemoveTool(b, n) ==
    /\ b \in DOMAIN toolboxes
    /\ LET r == remove_tool(toolboxes[b], n)
       IN  /\ toolboxes' = [toolboxes EXCEPT ![b] = r.tools]
           /\ lastOp' = Op("remove_tool", b, n, r.err, FALSE)
    /\ UNCHANGED <<HUGGINGFACE_DEFAULT_TOOLS, tools_are_initialized, buildCount>>
    /\ UNCHANGED <<execVars, runVars, memory, agentVars, parsed>>

\* Toolbox.update_tool
UpdateTool(b, t) ==
    /\ b \in DOMAIN toolboxes
    /\ LET r == update_tool(toolboxes[b], t)
       IN  /\ toolboxes' = [toolboxes EXCEPT ![b] = r.tools]
           /\ lastOp' = Op("update_tool", b, t.name, r.err, r.err = "none")
    /\ UNCHANGED <<HUGGINGFACE_DEFAULT_TOOLS, tools_are_initialized, buildCount>>
    /\ UNCHANGED <<execVars, runVars, memory, agentVars, parsed>>

\* Toolbox.clear_toolbox
ClearToolbox(b) ==
    /\ b \in DOMAIN toolboxes
    /\ toolboxes' = [toolboxes EXCEPT ![b] = EmptyDict]
    /\ lastOp' = Op("clear_toolbox", b, "none", "none", FALSE)
    /\ UNCHANGED <<HUGGINGFACE_DEFAULT_TOOLS, tools_are_initialized, buildCount>>
    /\ UNCHANGED <<execVars, runVars, memory, agentVars, parsed>>

NoCall == [tool_name |-> "none", arguments |-> [form |-> "none", s |-> "", m |-> EmptyDict],
           invoked |-> <<>>, raw |-> "none", exc |-> "none"]

\* no process-wide base set built, no Toolbox operation performed yet
NoToolboxHistory ==
    /\ HUGGINGFACE_DEFAULT_TOOLS = EmptyDict
    /\ tools_are_initialized = FALSE
    /\ buildCount = 0
    /\ lastOp = Op("none", "none", "none", "none", FALSE)

\* no agent: Agent.state is not set and no tool call was made
NoExecution ==
    /\ state = [defined |-> FALSE, entries |-> EmptyDict]
    /\ call = NoCall

NoPrompt == [tokens |-> <<>>, subst |-> EmptyDict]

NoTask == [text |-> "", note |-> <<>>]

NoRun == [task |-> "", kwargs |-> EmptyDict, return_generated_code |-> FALSE, stale |-> FALSE]

NoResult == [kind |-> "none", what |-> "none"]

NoCalls == [engine |-> 0, parser |-> 0, executor |-> 0]

NoMemory == [built |-> FALSE, summary_mode |-> FALSE, messages |-> <<>>]

NoConstruction == [agent |-> "none", given |-> "none", box |-> "none",
                   add_base_tools |-> FALSE, held |-> FALSE, added |-> 0]

NoParse == [input |-> [for |-> "none", text |-> <<>>], by |-> "none", out |-> [err |-> "none"]]

\* no agent constructed: nothing of a run exists
NoAgent ==
    /\ system_prompt_template = <<>>
    /\ system_prompt = NoPrompt
    /\ task = NoTask
    /\ logs = <<>>
    /\ pc = "Idle"
    /\ run = NoRun
    /\ llm_output = <<>>
    /\ code_action = <<>>
    /\ result = NoResult
    /\ phases = <<>>
    /\ calls = NoCalls
    /\ memory = NoMemory
    /\ agents = EmptyDict
    /\ construction = NoConstruction
    /\ parsed = NoParse

InitToolbox ==
    /\ toolboxes = EmptyDict
    /\ NoToolboxHistory
    /\ NoExecution
    /\ NoAgent

\* setup_default_tools is only reached while the base set is not yet built
SetupOutcomes(add_base) == IF add_base /\ ~tools_are_initialized THEN BOOLEAN ELSE {TRUE}

\* one Toolbox instance under every registry operation
NextToolbox ==
    \/ \E ts \in ToolLists, add_base \in BOOLEAN :
          \E setupOk \in SetupOutcomes(add_base) : NewToolbox("tb1", ts, add_base, setupOk)
    \/ \E api \in BOOLEAN, setupOk \in SetupOutcomes(TRUE) : AddBaseTools("tb1", api, setupOk)
    \/ \E t \in ToolObjects : AddTool("tb1", t)
    \/ \E n \in Names : RemoveTool("tb1", n)
    \/ \E t \in ToolObjects : UpdateTool("tb1", t)
    \/ ClearToolbox("tb1")

SpecToolbox == InitToolbox /\ [][NextToolbox]_vars

\* several Toolbox instances sharing the process-wide base set
NextBase ==
    \/ \E b \in Toolboxes, ts \in {ts \in ToolLists : Len(ts) <= 1}, add_base \in BOOLEAN :
          \E setupOk \in SetupOutcomes(add_base) : NewToolbox(b, ts, add_base, setupOk)
    \/ \E b \in Toolboxes, api \in BOOLEAN, setupOk \in SetupOutcomes(TRUE) :
          AddBaseTools(b, api, setupOk)
    \/ \E b \in Toolboxes, n \in Names : RemoveTool(b, n)
    \/ \E b \in Toolboxes : ClearToolbox(b)

SpecBase == InitToolbox /\ [][NextBase]_vars

----------------------------------------------------------------------------
(* Claims about the Toolbox *)

RejectedOps == {"add_tool", "remove_tool", "update_tool"}

\* C6: a rejected mutation has no effect. add_tool of a name already present
\* raises the duplicate-name error, remove_tool and update_tool of a name not
\* present raise the not-found error, and in all three cases the registry is
\* exactly what it was before the call.
C6_RejectedMutationHasNoEffect ==
    [][ /\ (lastOp'.op = "add_tool" /\ lastOp'.name \in DOMAIN toolboxes[lastOp'.box])
            => (lastOp'.err = "KeyError_exists" /\ toolboxes' = toolboxes)
        /\ (lastOp'.op \in {"remove_tool", "update_tool"}
              /\ lastOp'.name \notin DOMAIN toolboxes[lastOp'.box])
            => (lastOp'.err = "KeyError_not_found" /\ toolboxes' = toolboxes)
        /\ (lastOp'.op \in RejectedOps /\ lastOp'.err # "none") => toolboxes' = toolboxes
      ]_vars

\* an add_tool was rejected while the registry held tools, one of them deferred
C6_Witness ==
    /\ lastOp.op = "add_tool" /\ lastOp.err = "KeyError_exists"
    /\ Cardinality(DOMAIN toolboxes[lastOp.box]) >= 2
    /\ toolboxes[lastOp.box][lastOp.name].kind = "PreTool"

\* C7: registering a duplicate name is an error on every registration path;
\* only update_tool replaces an entry already held under a name.
C7_DuplicateRegistrationIsAnError ==
    lastOp.replaced => lastOp.op = "update_tool"

\* C8: the shared base set is built at most once; once built, no later
\* add_base_tools call on any instance rebuilds or modifies it.
C8_BaseSetBuiltOnce ==
    /\ [](buildCount <= 1)
    /\ [](tools_are_initialized <=> buildCount = 1)
    /\ [](tools_are_initialized => HUGGINGFACE_DEFAULT_TOOLS = setup_default_tools)
    /\ [][tools_are_initialized =>
            /\ tools_are_initialized'
            /\ HUGGINGFACE_DEFAULT_TOOLS' = HUGGINGFACE_DEFAULT_TOOLS
            /\ buildCount' = buildCount]_vars

\* the second instance has just added the base tools the first one built
C8_Witness ==
    /\ DOMAIN toolboxes = Toolboxes
    /\ lastOp.op = "add_base_tools" /\ lastOp.box = "tb2" /\ lastOp.err = "none"
    /\ \E n \in BaseNames : n \in DOMAIN toolboxes["tb1"] /\ n \in DOMAIN toolboxes["tb2"]
    /\ buildCount = 1

MaterializingOps == {"Toolbox", "add_tool", "update_tool", "add_base_tools"}

\* C9: after any completed registry operation (construction, add_tool,
\* update_tool, add_base_tools) every entry of the registry is a concrete
\* capability, none is still a deferred reference.
C9_NoDeferredEntryAfterMutation ==
    (lastOp.op \in MaterializingOps /\ lastOp.err = "none")
        => \A n \in DOMAIN toolboxes[lastOp.box] : toolboxes[lastOp.box][n].kind = "Tool"

----------------------------------------------------------------------------
(* Agent.execute_tool_call *)

StateKeyNames == <<"img", "question", "text">>

StateKeys == {StateKeyNames[i] : i \in 1..MaxStateVars}

ParamNames == <<"path", "prompt", "lang">>

Params == {ParamNames[i] : i \in 1..MaxArgs}

\* texts an argument may carry: the name of a state variable, and a text that
\* names none
ArgTexts == {StateKeyNames[1], "literal"}

\* a value is a string (t = "str", v its text) or any other object (t = "obj")
Values == [t : {"str", "obj"}, v : ArgTexts]

\* what the shared state may hold: an object, or a string that is itself a key
StoredValues == {[t |-> "obj", v |-> StateKeyNames[1]], [t |-> "str", v |-> StateKeyNames[1]]}

Dicts(K, V) == UNION {[D -> V] : D \in SUBSET K}

StrArg(v) == [form |-> "str", s |-> v, m |-> EmptyDict]

MapArg(m) == [form |-> "map", s |-> "", m |-> m]

NoneArg == [form |-> "None", s |-> "", m |-> EmptyDict]

ArgumentValues ==
    {StrArg(v) : v \in ArgTexts} \cup {MapArg(m) : m \in Dicts(Params, Values)}
        \cup {NoneArg}

Invocation(tool_name, positional, named) ==
    [tool |-> tool_name, positional |-> positional, named |-> named]

\* the except clause of execute_tool_call: whatever was raised leaves as the
\* one execution error
Wrapped(raw) == IF raw = "none" THEN "none" ELSE "AgentExecutionError"

\* the loop over arguments.items(): each value that is a string and a key of
\* the state is replaced by the stored value
ResolveArguments_mutant_no_substitution(st, m) == m

ResolveArguments(st, m) ==
    [k \in DOMAIN m |->
        IF m[k].t = "str" /\ m[k].v \in DOMAIN st.entries THEN st.entries[m[k].v] ELSE m[k]]

\* the call self.toolbox.tools[tool_name](...): a deferred reference is not
\* callable, a concrete tool runs and may raise
CallTool(tool, positional, named, toolRaises) ==
    IF tool.kind # "Tool"
    THEN [invoked |-> <<>>, raw |-> "TypeError"]
    ELSE [invoked |-> <<Invocation(tool.name, positional, named)>>,
          raw |-> IF toolRaises THEN "ToolError" ELSE "none"]

\* the try block of execute_tool_call: what was invoked and what was raised in it
TryToolCall(tools, st, tool_name, arguments, toolRaises) ==
    IF arguments.form = "str"
    THEN CallTool(tools[tool_name], <<[t |-> "str", v |-> arguments.s]>>, EmptyDict, toolRaises)
    ELSE IF arguments.form = "None"
    THEN [invoked |-> <<>>, raw |-> "AttributeError"]
    ELSE IF ~st.defined /\ \E k \in DOMAIN arguments.m : arguments.m[k].t = "str"
    THEN [invoked |-> <<>>, raw |-> "AttributeError"]
    ELSE CallTool(tools[tool_name], <<>>, ResolveArguments(st, arguments.m), toolRaises)

execute_tool_call_mutant_unwrapped(tools, st, tool_name, arguments, toolRaises) ==
    IF tool_name \notin DOMAIN tools
    THEN [invoked |-> <<>>, raw |-> "none", exc |-> "AgentExecutionError"]
    ELSE LET r == TryToolCall(tools, st, tool_name, arguments, toolRaises)
         IN  [invoked |-> r.invoked, raw |-> r.raw, exc |-> r.raw]

execute_tool_call(tools, st, tool_name, arguments, toolRaises) ==
    IF tool_name \notin DOMAIN tools
    THEN [invoked |-> <<>>, raw |-> "none", exc |-> "AgentExecutionError"]
    ELSE LET r == TryToolCall(tools, st, tool_name, arguments, toolRaises)
         IN  [invoked |-> r.invoked, raw |-> r.raw, exc |-> Wrapped(r.raw)]

\* a call changes neither the registry nor the state, so a later call behaves
\* as a first one: one call per behaviour reaches every outcome
ExecuteToolCall(tool_name, arguments, toolRaises) ==
    /\ "tb1" \in DOMAIN toolboxes
    /\ call = NoCall
    /\ LET r == execute_tool_call(toolboxes["tb1"], state, tool_name, arguments, toolRaises)
       IN  call' = [tool_name |-> tool_name, arguments |-> arguments, invoked |-> r.invoked,
                    raw |-> r.raw, exc |-> r.exc]
    /\ UNCHANGED <<tbVars, state, runVars, memory, agentVars, parsed>>

\* the registries the agent may hold when a tool call is executed
ExecToolboxes ==
    {DictOfTools(<<[name |-> "x", kind |-> "Tool", id |-> 1]>>),
     DictOfTools(<<[name |-> "x", kind |-> "PreTool", id |-> 1],
                   [name |-> "python_interpreter", kind |-> "Tool", id |-> 1]>>)}

InitExec ==
    /\ toolboxes \in {[b \in {"tb1"} |-> d] : d \in ExecToolboxes}
    /\ NoToolboxHistory
    /\ state \in {[defined |-> FALSE, entries |-> EmptyDict]}
                  \cup {[defined |-> TRUE, entries |-> d] : d \in Dicts(StateKeys, StoredValues)}
    /\ call = NoCall
    /\ NoAgent

NextExec ==
    \E tool_name \in Names, arguments \in ArgumentValues, toolRaises \in BOOLEAN :
        ExecuteToolCall(tool_name, arguments, toolRaises)

SpecExec == InitExec /\ [][NextExec]_vars

\* C4: the only error kind that leaves execute_tool_call is the execution
\* error. An unknown tool name raises it without any capability being
\* invoked, and whatever is raised while resolving the arguments or invoking
\* the capability leaves wrapped as the execution error.
C4_OnlyExecutionErrorLeaves ==
    /\ call.exc \in {"none", "AgentExecutionError"}
    /\ (call.tool_name # "none" /\ call.tool_name \notin DOMAIN toolboxes["tb1"])
          => (call.exc = "AgentExecutionError" /\ call.invoked = <<>>)
    /\ call.raw # "none" => call.exc = "AgentExecutionError"

\* a capability invoked with an argument mapping raised
C4_Witness ==
    /\ call.raw = "ToolError" /\ call.invoked # <<>> /\ call.exc = "AgentExecutionError"
    /\ call.arguments.form = "map"

\* C5: with an argument mapping the capability receives, for every parameter,
\* the stored state value when the argument is a string naming a state key
\* and the original argument otherwise; with a raw string it receives that
\* string as its sole positional input, unsubstituted.
C5_ArgumentsDereferenced ==
    call.invoked # <<>> =>
        LET inv == call.invoked[1]
            a   == call.arguments
        IN  /\ Len(call.invoked) = 1
            /\ a.form = "map" =>
                  /\ inv.positional = <<>>
                  /\ DOMAIN inv.named = DOMAIN a.m
                  /\ \A k \in DOMAIN a.m :
                        IF a.m[k].t = "str" /\ a.m[k].v \in DOMAIN state.entries
                        THEN inv.named[k] = state.entries[a.m[k].v]
                        ELSE inv.named[k] = a.m[k]
            /\ a.form = "str" =>
                  /\ inv.positional = <<[t |-> "str", v |-> a.s]>>
                  /\ inv.named = EmptyDict

\* a mapping with one dereferenced and one untouched argument was passed on
C5_Witness ==
    /\ call.invoked # <<>> /\ call.arguments.form = "map"
    /\ \E k1, k2 \in DOMAIN call.arguments.m :
          /\ call.arguments.m[k1].t = "str" /\ call.arguments.m[k1].v \in DOMAIN state.entries
          /\ call.invoked[1].named[k1] # call.arguments.m[k1]
          /\ call.invoked[1].named[k2] = call.arguments.m[k2]
          /\ call.arguments.m[k2].t = "str"

----------------------------------------------------------------------------
(* Prompt rendering *)

Range(s) == {s[i] : i \in 1..Len(s)}

\* a prompt is its template text with the values substituted for its tags so far
Contains(prompt, tag) == tag \in Range(prompt.tokens) /\ tag \notin DOMAIN prompt.subst

\* str.replace: no occurrence, no change
Replace(prompt, tag, value) ==
    IF Contains(prompt, tag) THEN [prompt EXCEPT !.subst = Put(@, tag, value)] ELSE prompt

format_prompt_with_tools(tools, prompt_template) ==
    LET prompt == Replace([tokens |-> prompt_template, subst |-> EmptyDict],
                          "<<tool_descriptions>>", DOMAIN tools)
    IN  IF Contains(prompt, "<<tool_names>>")
        THEN Replace(prompt, "<<tool_names>>", DOMAIN tools)
        ELSE prompt

format_prompt_with_imports(prompt, authorized_imports) ==
    IF ~Contains(prompt, "<<authorized_imports>>")
    THEN [err |-> "AgentError", prompt |-> prompt]
    ELSE [err |-> "none", prompt |-> Replace(prompt, "<<authorized_imports>>", authorized_imports)]

LIST_SAFE_MODULES == {"math", "re"}

\* CodeAgent.authorized_imports, with the additional import of main.py
authorized_imports == LIST_SAFE_MODULES \cup {"requests"}

\* the system prompt templates an agent may be constructed with: the tag for
\* the authorized imports present, and missing
Templates ==
    {<<"You will be given a task.", "<<tool_descriptions>>", "<<authorized_imports>>">>,
     <<"You will be given a task.", "<<tool_descriptions>>">>}

----------------------------------------------------------------------------
(* Agent.__init__ *)

Agents == {"a1", "a2"}

\* the Toolbox instance the constructor creates for an agent given a list
OwnToolbox == [a \in Agents |-> IF a = "a1" THEN "tb_a1" ELSE "tb_a2"]

FinalAnswerName == "final_answer"

\* FinalAnswerTool()
FinalAnswerTool == [name |-> FinalAnswerName, kind |-> "Tool", id |-> 1]

\* the tool lists an agent or a Toolbox is constructed with here
AgentToolLists ==
    {<<>>, <<[name |-> "x", kind |-> "Tool", id |-> 1]>>, <<FinalAnswerTool>>}

\* the registry part of Agent.__init__, on the dict of the Toolbox instance
\* it is given (is_toolbox) or of the tool list it is given: the base tools
\* when asked for, then add_tool(FinalAnswerTool()); added counts the calls
\* of that add_tool
Agent_init_mutant_reuse(tools, is_toolbox, cache, initialized, add_base, torch, react_json, setupOk) ==
    LET asis == [tools |-> tools, cache |-> cache, initialized |-> initialized,
                 built |-> 0, err |-> "none"]
        b == IF ~add_base THEN asis
             ELSE IF is_toolbox /\ ~torch THEN [asis EXCEPT !.err = "ImportError"]
             ELSE add_base_tools(tools, cache, initialized, is_toolbox /\ react_json, setupOk)
        loaded == IF is_toolbox THEN b.tools ELSE load_tools_if_needed(b.tools)
        r == add_tool(loaded, FinalAnswerTool)
    IN  IF b.err # "none"
        THEN [tools |-> b.tools, cache |-> b.cache, initialized |-> b.initialized,
              built |-> b.built, err |-> b.err, added |-> 0]
        ELSE IF FinalAnswerName \in DOMAIN loaded
        THEN [tools |-> loaded, cache |-> b.cache, initialized |-> b.initialized,
              built |-> b.built, err |-> "none", added |-> 0]
        ELSE [tools |-> r.tools, cache |-> b.cache, initialized |-> b.initialized,
              built |-> b.built, err |-> r.err, added |-> 1]

Agent_init(tools, is_toolbox, cache, initialized, add_base, torch, react_json, setupOk) ==
    LET asis == [tools |-> tools, cache |-> cache, initialized |-> initialized,
                 built |-> 0, err |-> "none"]
        b == IF ~add_base THEN asis
             ELSE IF is_toolbox /\ ~torch THEN [asis EXCEPT !.err = "ImportError"]
             ELSE add_base_tools(tools, cache, initialized, is_toolbox /\ react_json, setupOk)
        loaded == IF is_toolbox THEN b.tools ELSE load_tools_if_needed(b.tools)
        r == add_tool(loaded, FinalAnswerTool)
    IN  IF b.err # "none"
        THEN [tools |-> b.tools, cache |-> b.cache, initialized |-> b.initialized,
              built |-> b.built, err |-> b.err, added |-> 0]
        ELSE [tools |-> r.tools, cache |-> b.cache, initialized |-> b.initialized,
              built |-> b.built, err |-> r.err, added |-> 1]

\* Agent.__init__ for agent a, given the Toolbox instance box (given =
\* "Toolbox") or the tool list ts (given = "list"). A Toolbox instance keeps
\* what the constructor did to it also when the constructor raises; the
\* Toolbox made from a list is dropped with the agent. The prompt attributes
\* are those of the agent constructed last.
NewAgent(a, given, box, ts, add_base, torch, react_json, setupOk, template) ==
    /\ a \notin DOMAIN agents
    /\ IF given = "Toolbox" THEN box \in DOMAIN toolboxes ELSE box = OwnToolbox[a]
    /\ LET tools == IF given = "Toolbox" THEN toolboxes[box] ELSE DictOfTools(ts)
           r == Agent_init(tools, given = "Toolbox", HUGGINGFACE_DEFAULT_TOOLS,
                           tools_are_initialized, add_base, torch, react_json, setupOk)
       IN  /\ toolboxes' = IF given = "Toolbox" THEN [toolboxes EXCEPT ![box] = r.tools]
                           ELSE IF r.err = "none" THEN Put(toolboxes, box, r.tools)
                           ELSE toolboxes
           /\ HUGGINGFACE_DEFAULT_TOOLS' = r.cache
           /\ tools_are_initialized' = r.initialized
           /\ buildCount' = buildCount + r.built
           /\ lastOp' = Op("Agent", box, FinalAnswerName, r.err, FALSE)
           /\ agents' = IF r.err = "none" THEN Put(agents, a, box) ELSE agents
           /\ construction' = [agent |-> a, given |-> given, box |-> box,
                               add_base_tools |-> add_base,
                               held |-> FinalAnswerName \in DOMAIN tools, added |-> r.added]
           /\ IF r.err = "none"
              THEN /\ system_prompt_template' = template
                   /\ system_prompt' = format_prompt_with_tools(r.tools, template)
                   /\ logs' = <<>>
                   /\ task' = NoTask
              ELSE UNCHANGED <<system_prompt_template, system_prompt, logs, task>>
    /\ UNCHANGED <<execVars, pc, run, llm_output, code_action, result, phases, calls, memory,
                   parsed>>

\* is_torch_available() is read only for a Toolbox instance with base tools
TorchOutcomes(given, add_base) == IF given = "Toolbox" /\ add_base THEN BOOLEAN ELSE {TRUE}

\* one Toolbox instance of the user, and agents constructed from it or from lists
NextAgent ==
    \/ \E ts \in AgentToolLists, add_base \in BOOLEAN :
          \E setupOk \in SetupOutcomes(add_base) : NewToolbox("tb1", ts, add_base, setupOk)
    \/ \E a \in Agents, add_base, react_json \in BOOLEAN, template \in Templates :
          \E torch \in TorchOutcomes("Toolbox", add_base), setupOk \in SetupOutcomes(add_base) :
             NewAgent(a, "Toolbox", "tb1", <<>>, add_base, torch, react_json, setupOk, template)
    \/ \E a \in Agents, ts \in AgentToolLists, add_base \in BOOLEAN, template \in Templates :
          \E setupOk \in SetupOutcomes(add_base) :
             NewAgent(a, "list", OwnToolbox[a], ts, add_base, TRUE, FALSE, setupOk, template)
    \/ RemoveTool("tb1", FinalAnswerName)

SpecAgent == InitToolbox /\ [][NextAgent]_vars

\* C15: Agent.__init__ registers the final-answer capability through add_tool,
\* once, after the Toolbox is set up, and a construction that succeeds made
\* that call, so the registry of a newly constructed agent holds the name. A
\* construction from a Toolbox instance or a tool list that already holds the
\* name never succeeds and no agent reuses the entry: it fails with the
\* duplicate-name error, or, only when the base tools are asked for, with
\* the error of the missing dependency or of the base-set setup raised
\* before add_tool is reached; add_tool is not called only in those cases.
C15_FinalAnswerRegisteredOnce ==
    lastOp.op = "Agent" =>
        /\ construction.added <= 1
        /\ lastOp.err = "none" =>
              /\ construction.added = 1 /\ ~construction.held
              /\ construction.agent \in DOMAIN agents
              /\ agents[construction.agent] = construction.box
              /\ FinalAnswerName \in DOMAIN toolboxes[construction.box]
        /\ lastOp.err # "none" => construction.agent \notin DOMAIN agents
        /\ construction.held =>
              /\ lastOp.err \in {"KeyError_exists"}
                    \cup (IF construction.add_base_tools THEN {"ImportError", "SetupError"}
                          ELSE {})
              /\ construction.added = 1 => lastOp.err = "KeyError_exists"
        /\ construction.added = 0 => (lastOp.err # "none" /\ construction.add_base_tools)

\* a second agent was constructed from the Toolbox instance the first agent
\* uses, and add_tool rejected the final-answer capability
C15_Witness ==
    /\ lastOp.op = "Agent" /\ lastOp.err = "KeyError_exists"
    /\ construction.agent = "a2" /\ construction.given = "Toolbox"
    /\ construction.held /\ construction.added = 1 /\ ~construction.add_base_tools
    /\ "a1" \in DOMAIN agents /\ agents["a1"] = construction.box
    /\ "a2" \notin DOMAIN agents

\* C15 as stated: every construction calls add_tool for the final-answer
\* capability exactly once, and a construction from a Toolbox instance that
\* already holds the name fails with the duplicate-name error.
C15_AlwaysDuplicateNameError ==
    lastOp.op = "Agent" =>
        /\ construction.added = 1
        /\ lastOp.err = "none" => FinalAnswerName \in DOMAIN toolboxes[construction.box]
        /\ construction.held => lastOp.err = "KeyError_exists"

----------------------------------------------------------------------------
(* CodeAgent.run *)

Tasks == {"task1", "task2"}

Kwargs == Dicts(StateKeys, StoredValues)

\* tokens of a model output: the marker run splits on, the opening and the
\* closing line of a fenced block, and any other text
CodeMarker == "Code:"
FenceOpen == "fence_open_py"
FenceClose == "fence_close"
OutputTokens == {CodeMarker, FenceOpen, FenceClose, "text"}

LlmOutputs == UNION {[1..n -> OutputTokens] : n \in 0..MaxOutputLen}

\* self.task: the task, and the note about the keyword arguments when given
TaskText(t, kwargs) == [text |-> t, note |-> IF kwargs # EmptyDict THEN <<kwargs>> ELSE <<>>]

\* self.state = kwargs.copy()
InitialState_mutant_update(old, kwargs) ==
    [defined |-> TRUE,
     entries |-> [k \in DOMAIN old.entries \cup DOMAIN kwargs |->
                    IF k \in DOMAIN kwargs THEN kwargs[k] ELSE old.entries[k]]]

InitialState(old, kwargs) == [defined |-> TRUE, entries |-> kwargs]

\* Agent.initialize_for_run: the error raised, self.system_prompt and self.logs
initialize_for_run(tools, prompt_template, t, oldLogs) ==
    LET prompt == format_prompt_with_tools(tools, prompt_template)
        r == format_prompt_with_imports(prompt, authorized_imports)
    IN  IF r.err # "none"
        THEN [err |-> r.err, system_prompt |-> prompt, logs |-> oldLogs]
        ELSE [err |-> "none", system_prompt |-> r.prompt,
              logs |-> <<[system_prompt |-> r.prompt, task |-> t]>>]

LastIndexOf(s, token) ==
    IF token \notin Range(s) THEN 0
    ELSE CHOOSE i \in 1..Len(s) : s[i] = token /\ \A j \in (i + 1)..Len(s) : s[j] # token

\* Agent.extract_action: what follows the last split token
extract_action(output, split_token) ==
    LET i == LastIndexOf(output, split_token)
    IN  IF i = 0 THEN [err |-> "AgentParsingError", action |-> <<>>]
        ELSE [err |-> "none", action |-> SubSeq(output, i + 1, Len(output))]

SetMin(S) == CHOOSE x \in S : \A y \in S : x <= y

\* parse_code_blob: the body of the first fenced block that is closed
parse_code_blob(code_blob) ==
    LET closes(i) == {j \in (i + 1)..Len(code_blob) : code_blob[j] = FenceClose}
        opens == {i \in 1..Len(code_blob) : code_blob[i] = FenceOpen /\ closes(i) # {}}
    IN  IF opens = {} THEN [err |-> "ValueError", code |-> <<>>]
        ELSE LET i == SetMin(opens)
             IN  [err |-> "none", code |-> SubSeq(code_blob, i + 1, SetMin(closes(i)) - 1)]

Returned(what) == [kind |-> "returned", what |-> what]

Raised(what) == [kind |-> "raised", what |-> what]

\* run between the engine call and the executor: the early return of the
\* generated text, the extraction with its fallback, and the parse
InterpretOutput_mutant_flag_ignored(output, return_generated_code) ==
    LET e == extract_action(output, CodeMarker)
        p == parse_code_blob(IF e.err # "none" THEN output ELSE e.action)
    IN  IF p.err # "none"
        THEN [pc |-> "Failed", result |-> Returned("parse_error"), code |-> <<>>, parser |-> 1]
        ELSE [pc |-> "Parsed", result |-> NoResult, code |-> p.code, parser |-> 1]

InterpretOutput(output, return_generated_code) ==
    IF return_generated_code
    THEN [pc |-> "Done", result |-> Returned("llm_output"), code |-> <<>>, parser |-> 0]
    ELSE LET e == extract_action(output, CodeMarker)
             p == parse_code_blob(IF e.err # "none" THEN output ELSE e.action)
         IN  IF p.err # "none"
             THEN [pc |-> "Failed", result |-> Returned("parse_error"), code |-> <<>>,
                   parser |-> 1]
             ELSE [pc |-> "Parsed", result |-> NoResult, code |-> p.code, parser |-> 1]

Ended == {"Done", "Failed", "Raised"}

\* run up to the engine call: task text, shared state, initialize_for_run, prompt
Run(t, return_generated_code, kwargs) ==
    /\ pc \in Ended \cup {"Idle"}
    /\ LET text == TaskText(t, kwargs)
           r == initialize_for_run(toolboxes["tb1"], system_prompt_template, text, logs)
       IN  /\ task' = text
           /\ state' = InitialState(state, kwargs)
           /\ system_prompt' = r.system_prompt
           /\ logs' = r.logs
           /\ pc' = IF r.err = "none" THEN "Initialized" ELSE "Raised"
           /\ result' = IF r.err = "none" THEN NoResult ELSE Raised(r.err)
           /\ phases' = IF r.err = "none" THEN <<"Initialized">> ELSE <<>>
    /\ run' = [task |-> t, kwargs |-> kwargs, return_generated_code |-> return_generated_code,
               stale |-> \E k \in DOMAIN state.entries :
                            k \notin DOMAIN kwargs \/ kwargs[k] # state.entries[k]]
    /\ llm_output' = <<>>
    /\ code_action' = <<>>
    /\ calls' = NoCalls
    /\ UNCHANGED <<tbVars, call, system_prompt_template, memory, agentVars, parsed>>

\* llm_output = self.llm_engine(self.prompt, ...): the engine answers or raises
CallEngine(answers, output) ==
    /\ pc = "Initialized"
    /\ calls' = [calls EXCEPT !.engine = @ + 1]
    /\ IF answers
       THEN /\ llm_output' = output
            /\ pc' = "Prompted"
            /\ phases' = Append(phases, "Prompted")
            /\ result' = result
       ELSE /\ llm_output' = <<>>
            /\ pc' = "Raised"
            /\ phases' = phases
            /\ result' = Raised("EngineError")
    /\ UNCHANGED <<tbVars, execVars, system_prompt_template, system_prompt, task, logs, run,
                   code_action, memory, agentVars, parsed>>

Interpret ==
    /\ pc = "Prompted"
    /\ LET r == InterpretOutput(llm_output, run.return_generated_code)
       IN  /\ pc' = r.pc
           /\ result' = r.result
           /\ code_action' = r.code
           /\ calls' = [calls EXCEPT !.parser = @ + r.parser]
           /\ phases' = Append(phases, r.pc)
    /\ llm_output' = <<>>
    /\ UNCHANGED <<tbVars, execVars, system_prompt_template, system_prompt, task, logs, run,
                   memory, agentVars, parsed>>

PrintOutputs == [t |-> "str", v |-> "printed"]

\* what the code executor may do: return or raise, having recorded the
\* printed output in the state or not
EvaluatorOutcomes == {"returns", "returns_without_print", "raises", "raises_after_print"}

\* output = self.python_evaluator(code_action, ..., state=self.state, ...)
Evaluate(outcome) ==
    /\ pc = "Parsed"
    /\ calls' = [calls EXCEPT !.executor = @ + 1]
    /\ state' = IF outcome \in {"returns", "raises_after_print"}
                THEN [state EXCEPT !.entries = Put(@, "print_outputs", PrintOutputs)]
                ELSE state
    /\ IF outcome \in {"returns", "returns_without_print"}
       THEN /\ pc' = "Executed"
            /\ result' = result
       ELSE /\ pc' = "Failed"
            /\ result' = Returned("execution_error")
    /\ phases' = Append(phases, pc')
    /\ code_action' = <<>>
    /\ UNCHANGED <<tbVars, call, system_prompt_template, system_prompt, task, logs, run,
                   llm_output, memory, agentVars, parsed>>

\* self.logger.info(self.state["print_outputs"]); return output
Report ==
    /\ pc = "Executed"
    /\ IF "print_outputs" \in DOMAIN state.entries
       THEN /\ pc' = "Done"
            /\ result' = Returned("output")
       ELSE /\ pc' = "Failed"
            /\ result' = Returned("execution_error")
    /\ phases' = Append(phases, pc')
    /\ UNCHANGED <<tbVars, execVars, system_prompt_template, system_prompt, task, logs, run,
                   llm_output, code_action, calls, memory, agentVars, parsed>>

\* the registry of a constructed agent
AgentToolbox ==
    DictOfTools(<<[name |-> "x", kind |-> "Tool", id |-> 1],
                  [name |-> "final_answer", kind |-> "Tool", id |-> 1]>>)

\* a CodeAgent after its construction
InitRun ==
    /\ toolboxes = [b \in {"tb1"} |-> AgentToolbox]
    /\ NoToolboxHistory
    /\ NoExecution
    /\ system_prompt_template \in Templates
    /\ system_prompt = Replace(format_prompt_with_tools(AgentToolbox, system_prompt_template),
                               "<<authorized_imports>>", authorized_imports)
    /\ task = NoTask
    /\ logs = <<>>
    /\ pc = "Idle"
    /\ run = NoRun
    /\ llm_output = <<>>
    /\ code_action = <<>>
    /\ result = NoResult
    /\ phases = <<>>
    /\ calls = NoCalls
    /\ memory = NoMemory
    /\ agents = [a \in {"a1"} |-> "tb1"]
    /\ construction = NoConstruction
    /\ parsed = NoParse

NextRun ==
    \/ \E t \in Tasks, rgc \in BOOLEAN, kwargs \in Kwargs : Run(t, rgc, kwargs)
    \/ \E output \in LlmOutputs : CallEngine(TRUE, output)
    \/ CallEngine(FALSE, <<>>)
    \/ Interpret
    \/ \E outcome \in EvaluatorOutcomes : Evaluate(outcome)
    \/ Report

SpecRun == InitRun /\ [][NextRun]_vars

----------------------------------------------------------------------------
(* Claims about CodeAgent.run *)

\* C1: whatever the model engine, the parser and the executor do, a run that
\* reached the engine ends by returning a value; no exception escapes it.
C1_RunAlwaysReturns ==
    (pc \in Ended /\ calls.engine >= 1) => result.kind = "returned"

PhaseOrder == <<"Initialized", "Prompted", "Parsed", "Executed", "Done">>

Prefixes(s) == {SubSeq(s, 1, n) : n \in 0..Len(s)}

\* C2: a run enters the phases Initialized, Prompted, Parsed, Executed, Done
\* in this order and each at most once. The engine is called once and only
\* after initialization, the executor only after a successful parse; a run
\* asked for the generated code ends after the engine call with no parse and
\* no execution; after a failure no further phase of the run occurs.
C2_PhaseOrder ==
    LET n == Len(phases)
        failed == n > 0 /\ phases[n] = "Failed"
        entered == IF failed THEN SubSeq(phases, 1, n - 1) ELSE phases
    IN  /\ entered \in Prefixes(PhaseOrder) \cup {<<"Initialized", "Prompted", "Done">>}
        /\ failed => (pc = "Failed" /\ Len(entered) >= 2)
        /\ calls.engine <= 1 /\ calls.parser <= 1 /\ calls.executor <= 1
        /\ calls.engine = 1 => "Initialized" \in Range(phases)
        /\ "Prompted" \in Range(phases) => calls.engine = 1
        /\ "Parsed" \in Range(phases) => calls.parser = 1
        /\ calls.executor = 1 => "Parsed" \in Range(phases)
        /\ "Executed" \in Range(phases) => calls.executor = 1
        /\ run.return_generated_code =>
              /\ calls.parser = 0 /\ calls.executor = 0
              /\ "Prompted" \in Range(phases) /\ pc # "Prompted"
                    => (phases = <<"Initialized", "Prompted", "Done">> /\ pc = "Done")
        /\ (pc = "Done" /\ ~run.return_generated_code) => phases = PhaseOrder
        /\ pc \in {"Done", "Failed"} => calls.engine = 1

\* a run went through every phase and returned the executor's output
C2_Witness ==
    /\ pc = "Done" /\ phases = PhaseOrder /\ result = Returned("output")
    /\ calls = [engine |-> 1, parser |-> 1, executor |-> 1]

PromptTags == {"<<tool_descriptions>>", "<<tool_names>>", "<<authorized_imports>>"}

\* C3: when a run has been initialized, whatever earlier runs did, the shared
\* state is exactly the keyword arguments of this run and the step log is one
\* entry: the rendered system prompt, and the task text with the note about
\* the keyword arguments appended when there are any.
C3_RunStartsFresh ==
    pc = "Initialized" =>
        /\ state.defined /\ state.entries = run.kwargs
        /\ Len(logs) = 1
        /\ logs[1].system_prompt = system_prompt
        /\ \A tag \in PromptTags \cap Range(system_prompt.tokens) :
              tag \in DOMAIN system_prompt.subst
        /\ system_prompt.tokens = system_prompt_template
        /\ system_prompt.subst["<<tool_descriptions>>"] = DOMAIN toolboxes["tb1"]
        /\ logs[1].task = task
        /\ task.text = run.task
        /\ task.note = IF DOMAIN run.kwargs = {} THEN <<>> ELSE <<run.kwargs>>

\* a run was initialized with keyword arguments while the state still held
\* what the executor of an earlier run had written
C3_Witness ==
    /\ pc = "Initialized" /\ run.stale /\ run.kwargs # EmptyDict
    /\ "print_outputs" \notin DOMAIN state.entries

\* C12: a run whose system prompt template lacks the authorized-imports tag
\* raises the configuration error to the caller before any state transition
\* of the run: the engine is not called, and the task text, the shared state
\* and the step log are what they were before the run was started.
C12_ConfigErrorBeforeAnyTransition ==
    [][(pc' = "Raised" /\ result' = Raised("AgentError"))
          => /\ calls'.engine = 0
             /\ task' = task
             /\ state' = state
             /\ logs' = logs]_vars

----------------------------------------------------------------------------
(* Agent.write_inner_memory_from_logs *)

StepFields == {"llm_output", "facts", "plan", "tool_call", "task", "error", "observation"}

\* the texts of the step records: each comes with surrounding whitespace (pad),
\* so that stripping it shows
Texts == {[text |-> "a", pad |-> TRUE]}

\* str.strip
Strip(v) == [v EXCEPT !.pad = FALSE]

\* the step records that carry exactly j fields
StepRecords(j) ==
    UNION {[S -> Texts] : S \in {S \in SUBSET StepFields : Cardinality(S) = j}}

\* the sequences of n step records that carry at most k fields in total
RECURSIVE StepSequences(_, _)
StepSequences(n, k) ==
    IF n = 0 THEN {<<>>}
    ELSE UNION {{<<e>> \o l : e \in StepRecords(j), l \in StepSequences(n - 1, k - j)} :
                    j \in 0..k}

InitialEntry ==
    [f \in {"system_prompt", "task"} |->
        IF f = "task" THEN [text |-> "task", pad |-> TRUE] ELSE [text |-> "system", pad |-> TRUE]]

StepLogs == {<<InitialEntry>> \o l : l \in UNION {StepSequences(n, MaxFields) : n \in 0..MaxSteps}}

\* a message: its role, the text put before the content, the step index
\* printed in that text (-1 where none is), and the content
Message(role, label, step, content) ==
    [role |-> role, label |-> label, step |-> step, content |-> content]

\* the messages of one pass through the loop body, for the step record at
\* index i of self.logs[1:]
StepMessages_mutant_both_responses(i, step_log, summary_mode) ==
    (IF "llm_output" \in DOMAIN step_log /\ ~summary_mode
     THEN <<Message("assistant", "", -1, Strip(step_log["llm_output"]))>> ELSE <<>>)
    \o (IF "facts" \in DOMAIN step_log
        THEN <<Message("assistant", "[FACTS LIST]:", -1, Strip(step_log["facts"]))>> ELSE <<>>)
    \o (IF "plan" \in DOMAIN step_log /\ ~summary_mode
        THEN <<Message("assistant", "[PLAN]:", -1, Strip(step_log["plan"]))>> ELSE <<>>)
    \o (IF "tool_call" \in DOMAIN step_log /\ summary_mode
        THEN <<Message("assistant", "[STEP TOOL CALL]:", i, Strip(step_log["tool_call"]))>>
        ELSE <<>>)
    \o (IF "task" \in DOMAIN step_log
        THEN <<Message("user", "New task:", -1, step_log["task"])>> ELSE <<>>)
    \o (IF "error" \in DOMAIN step_log
        THEN <<Message("tool-response", "[OUTPUT OF STEP] Error:", i, step_log["error"])>>
        ELSE <<>>)
    \o (IF "observation" \in DOMAIN step_log
        THEN <<Message("tool-response", "[OUTPUT OF STEP] Observation:", i,
                       step_log["observation"])>>
        ELSE <<>>)

StepMessages_mutant_plan_in_summary(i, step_log, summary_mode) ==
    (IF "llm_output" \in DOMAIN step_log /\ ~summary_mode
     THEN <<Message("assistant", "", -1, Strip(step_log["llm_output"]))>> ELSE <<>>)
    \o (IF "facts" \in DOMAIN step_log
        THEN <<Message("assistant", "[FACTS LIST]:", -1, Strip(step_log["facts"]))>> ELSE <<>>)
    \o (IF "plan" \in DOMAIN step_log
        THEN <<Message("assistant", "[PLAN]:", -1, Strip(step_log["plan"]))>> ELSE <<>>)
    \o (IF "tool_call" \in DOMAIN step_log /\ summary_mode
        THEN <<Message("assistant", "[STEP TOOL CALL]:", i, Strip(step_log["tool_call"]))>>
        ELSE <<>>)
    \o (IF "task" \in DOMAIN step_log
        THEN <<Message("user", "New task:", -1, step_log["task"])>> ELSE <<>>)
    \o (IF "error" \in DOMAIN step_log
        THEN <<Message("tool-response", "[OUTPUT OF STEP] Error:", i, step_log["error"])>>
        ELSE IF "observation" \in DOMAIN step_log
        THEN <<Message("tool-response", "[OUTPUT OF STEP] Observation:", i,
                       step_log["observation"])>>
        ELSE <<>>)

StepMessages(i, step_log, summary_mode) ==
    (IF "llm_output" \in DOMAIN step_log /\ ~summary_mode
     THEN <<Message("assistant", "", -1, Strip(step_log["llm_output"]))>> ELSE <<>>)
    \o (IF "facts" \in DOMAIN step_log
        THEN <<Message("assistant", "[FACTS LIST]:", -1, Strip(step_log["facts"]))>> ELSE <<>>)
    \o (IF "plan" \in DOMAIN step_log /\ ~summary_mode
        THEN <<Message("assistant", "[PLAN]:", -1, Strip(step_log["plan"]))>> ELSE <<>>)
    \o (IF "tool_call" \in DOMAIN step_log /\ summary_mode
        THEN <<Message("assistant", "[STEP TOOL CALL]:", i, Strip(step_log["tool_call"]))>>
        ELSE <<>>)
    \o (IF "task" \in DOMAIN step_log
        THEN <<Message("user", "New task:", -1, step_log["task"])>> ELSE <<>>)
    \o (IF "error" \in DOMAIN step_log
        THEN <<Message("tool-response", "[OUTPUT OF STEP] Error:", i, step_log["error"])>>
        ELSE IF "observation" \in DOMAIN step_log
        THEN <<Message("tool-response", "[OUTPUT OF STEP] Observation:", i,
                       step_log["observation"])>>
        ELSE <<>>)

\* the loop over enumerate(self.logs[1:]), from index i on
RECURSIVE LoopMessages(_, _, _)
LoopMessages(step_logs, i, summary_mode) ==
    IF i >= Len(step_logs) THEN <<>>
    ELSE StepMessages(i, step_logs[i + 1], summary_mode)
            \o LoopMessages(step_logs, i + 1, summary_mode)

write_inner_memory_from_logs(agent_logs, summary_mode) ==
    LET prompt_message == Message("system", "", -1, agent_logs[1]["system_prompt"])
        task_message == Message("user", "Task:", -1, agent_logs[1]["task"])
    IN  (IF summary_mode THEN <<task_message>> ELSE <<prompt_message, task_message>>)
            \o LoopMessages(Tail(agent_logs), 0, summary_mode)

\* a call changes nothing it reads: one call per behaviour reaches every outcome
WriteInnerMemory(summary_mode) ==
    /\ ~memory.built
    /\ memory' = [built |-> TRUE, summary_mode |-> summary_mode,
                  messages |-> write_inner_memory_from_logs(logs, summary_mode)]
    /\ UNCHANGED <<tbVars, execVars, runVars, agentVars, parsed>>

\* an agent whose step log holds any step records
InitMemory ==
    /\ toolboxes = EmptyDict
    /\ NoToolboxHistory
    /\ NoExecution
    /\ system_prompt_template = <<>>
    /\ system_prompt = NoPrompt
    /\ task = NoTask
    /\ logs \in StepLogs
    /\ pc = "Idle"
    /\ run = NoRun
    /\ llm_output = <<>>
    /\ code_action = <<>>
    /\ result = NoResult
    /\ phases = <<>>
    /\ calls = NoCalls
    /\ memory = NoMemory
    /\ agents = EmptyDict
    /\ construction = NoConstruction
    /\ parsed = NoParse

NextMemory == \E summary_mode \in BOOLEAN : WriteInnerMemory(summary_mode)

SpecMemory == InitMemory /\ [][NextMemory]_vars

\* the messages of the transcript that match, and the step records that carry a field
Matching(messages, role, label) ==
    {k \in 1..Len(messages) : messages[k].role = role /\ messages[k].label = label}

Carrying(field) == {i \in 2..Len(logs) : field \in DOMAIN logs[i]}

\* each step record carrying the field has its message, and there is no other
EachHasMessage(field, role, label, step, strip) ==
    /\ Cardinality(Matching(memory.messages, role, label)) = Cardinality(Carrying(field))
    /\ \A i \in Carrying(field) :
          \E k \in Matching(memory.messages, role, label) :
             /\ memory.messages[k].content
                    = IF strip THEN Strip(logs[i][field]) ELSE logs[i][field]
             /\ memory.messages[k].step = IF step THEN i - 2 ELSE -1

\* C10: the full transcript holds the system prompt and the llm_output and
\* plan message of every step record that has the field, and no tool_call
\* message; the summary transcript holds no system prompt, llm_output or plan
\* message and a tool_call message for every step record that has the field;
\* both hold the task message of entry 0 and the facts and sub-task message
\* of every step record that has the field.
C10_TranscriptModes ==
    memory.built =>
        /\ Cardinality(Matching(memory.messages, "user", "Task:")) = 1
        /\ \E k \in Matching(memory.messages, "user", "Task:") :
              memory.messages[k].content = logs[1]["task"]
        /\ EachHasMessage("facts", "assistant", "[FACTS LIST]:", FALSE, TRUE)
        /\ EachHasMessage("task", "user", "New task:", FALSE, FALSE)
        /\ ~memory.summary_mode =>
              /\ Cardinality(Matching(memory.messages, "system", "")) = 1
              /\ \E k \in Matching(memory.messages, "system", "") :
                    memory.messages[k].content = logs[1]["system_prompt"]
              /\ EachHasMessage("llm_output", "assistant", "", FALSE, TRUE)
              /\ EachHasMessage("plan", "assistant", "[PLAN]:", FALSE, TRUE)
              /\ Matching(memory.messages, "assistant", "[STEP TOOL CALL]:") = {}
        /\ memory.summary_mode =>
              /\ Matching(memory.messages, "system", "") = {}
              /\ Matching(memory.messages, "assistant", "") = {}
              /\ Matching(memory.messages, "assistant", "[PLAN]:") = {}
              /\ EachHasMessage("tool_call", "assistant", "[STEP TOOL CALL]:", TRUE, TRUE)

\* a summary transcript of a log whose step records carry llm_output, plan
\* and tool_call
C10_Witness ==
    /\ memory.built /\ memory.summary_mode
    /\ Carrying("llm_output") # {} /\ Carrying("plan") # {} /\ Carrying("tool_call") # {}
    /\ Len(logs) = 3

\* the tool-response messages of the transcript, in order
ToolResponses == SelectSeq(memory.messages, LAMBDA msg : msg.role = "tool-response")

\* the positions in the step log, after entry 0, of the records that carry
\* error or observation
Responding == {i \in 2..Len(logs) : {"error", "observation"} \cap DOMAIN logs[i] # {}}

\* C11: in both modes every step record after entry 0 contributes exactly one
\* tool-response message if it carries error or observation (the error
\* rendering if it carries both) and none if it carries neither, so the
\* transcript holds as many tool-response messages as there are such records;
\* the index in the label of each is the record's 0-based position among the
\* records after the initialization entry, and the messages come in log order.
C11_OneToolResponsePerEntry ==
    memory.built =>
        /\ Len(ToolResponses) = Cardinality(Responding)
        /\ \A i \in 2..Len(logs) :
              LET mine == {k \in 1..Len(ToolResponses) : ToolResponses[k].step = i - 2}
              IN  /\ Cardinality(mine) = IF i \in Responding THEN 1 ELSE 0
                  /\ \A k \in mine :
                        /\ k = Cardinality({j \in Responding : j <= i})
                        /\ IF "error" \in DOMAIN logs[i]
                           THEN /\ ToolResponses[k].label = "[OUTPUT OF STEP] Error:"
                                /\ ToolResponses[k].content = logs[i]["error"]
                           ELSE /\ ToolResponses[k].label = "[OUTPUT OF STEP] Observation:"
                                /\ ToolResponses[k].content = logs[i]["observation"]

\* a transcript of a log whose first step record carries neither field and
\* whose second carries both error and observation
C11_Witness ==
    /\ memory.built /\ Len(logs) = 3
    /\ {"error", "observation"} \cap DOMAIN logs[2] = {}
    /\ {"error", "observation"} \subseteq DOMAIN logs[3]
    /\ Len(ToolResponses) = 1 /\ ToolResponses[1].step = 1

----------------------------------------------------------------------------
(* The tool-call parsers: parse_json_blob, parse_json_tool_call and          *)
(* parse_text_tool_call                                                      *)

\* A text is a sequence of tokens: string literals in double quotes, which
\* may hold an escaped double quote or an apostrophe (quote), bare words,
\* and symbols: the JSON punctuation, the fence lines, the markers of a text
\* tool call.
Lit(text, quote) == [k |-> "string", text |-> text, quote |-> quote]

Word(text, quote) == [k |-> "word", text |-> text, quote |-> quote]

Sym(c) == [k |-> "sym", text |-> c, quote |-> "none"]

LBrace == Sym("{")

RBrace == Sym("}")

Colon == Sym(":")

Comma == Sym(",")

NullTok == Sym("null")

FenceJson == Sym("fence_json")

Fence == Sym("fence")

ActionMarker == Sym("Action:")

ActionInputMarker == Sym("Action input:")

ObservationMarker == Sym("Observation:")

\* what json.loads gives: a string (which may hold a double quote or an
\* apostrophe), None, or a dict from strings to such values
Str(text, quote) == [t |-> "str", text |-> text, quote |-> quote, d |-> EmptyDict]

None == [t |-> "None", text |-> "", quote |-> "none", d |-> EmptyDict]

Dict(d) == [t |-> "dict", text |-> "", quote |-> "none", d |-> d]

Positions(s, tok) == {i \in 1..Len(s) : s[i] = tok}

SetMax(S) == CHOOSE x \in S : \A y \in S : x >= y

\* the string a literal stands for: an escaped double quote is a double quote
Decode(tok) == Str(tok.text, IF tok.quote = "escaped" THEN "dquote" ELSE tok.quote)

Fail == [ok |-> FALSE, val |-> None, next |-> 0]

Ok(val, next) == [ok |-> TRUE, val |-> val, next |-> next]

\* the JSON decoder on tokens: the value that starts at position i and the
\* position after it; in an object a later member overwrites an earlier one
\* of the same key
RECURSIVE ParseValue(_, _), ParseMembers(_, _, _)
ParseValue(s, i) ==
    IF i > Len(s) THEN Fail
    ELSE IF s[i].k = "string" THEN Ok(Decode(s[i]), i + 1)
    ELSE IF s[i] = NullTok THEN Ok(None, i + 1)
    ELSE IF s[i] = LBrace
         THEN IF i + 1 <= Len(s) /\ s[i + 1] = RBrace
              THEN Ok(Dict(EmptyDict), i + 2)
              ELSE ParseMembers(s, i + 1, EmptyDict)
    ELSE Fail

ParseMembers(s, i, d) ==
    IF i + 1 > Len(s) THEN Fail
    ELSE IF s[i].k # "string" \/ s[i + 1] # Colon THEN Fail
    ELSE LET v == ParseValue(s, i + 2)
         IN  IF ~v.ok THEN Fail
             ELSE IF v.next > Len(s) THEN Fail
             ELSE LET d2 == Put(d, Decode(s[i]), v.val)
                  IN  IF s[v.next] = RBrace THEN Ok(Dict(d2), v.next + 1)
                      ELSE IF s[v.next] = Comma THEN ParseMembers(s, v.next + 1, d2)
                      ELSE Fail

\* json.loads: one value, and nothing after it
json_loads(s) ==
    LET r == ParseValue(s, 1)
    IN  IF r.ok /\ r.next = Len(s) + 1
        THEN [err |-> "none", data |-> r.val]
        ELSE [err |-> "JSONDecodeError", data |-> None]

\* .replace('\\"', "'")
ReplaceEscapedQuotes(s) ==
    [i \in DOMAIN s |-> IF s[i].quote = "escaped" THEN [s[i] EXCEPT !.quote = "apostrophe"]
                        ELSE s[i]]

\* parse_json_blob: the span from the first opening to the last closing
\* brace, decoded; find gives -1 when there is no opening brace, and the
\* slice then starts at the last token
parse_json_blob(json_blob) ==
    IF Positions(json_blob, RBrace) = {} THEN [err |-> "ValueError", data |-> None]
    ELSE LET first_accolade_index ==
                 IF Positions(json_blob, LBrace) = {} THEN Len(json_blob)
                 ELSE SetMin(Positions(json_blob, LBrace))
             last_accolade_index == SetMax(Positions(json_blob, RBrace))
             r == json_loads(ReplaceEscapedQuotes(
                      SubSeq(json_blob, first_accolade_index, last_accolade_index)))
         IN  IF r.err # "none" THEN [err |-> "ValueError", data |-> None]
             ELSE [err |-> "none", data |-> r.data]

JsonToolCall(err, action, action_input) ==
    [err |-> err, action |-> action, action_input |-> action_input]

\* parse_json_tool_call: the fence lines removed, the blob decoded, the keys read
parse_json_tool_call(json_blob) ==
    LET r == parse_json_blob(SelectSeq(json_blob, LAMBDA tok : tok \notin {FenceJson, Fence}))
        tool_call == r.data.d
    IN  IF r.err # "none" THEN JsonToolCall("ValueError", None, None)
        ELSE IF Str("action", "none") \in DOMAIN tool_call
                  /\ Str("action_input", "none") \in DOMAIN tool_call
        THEN JsonToolCall("none", tool_call[Str("action", "none")],
                          tool_call[Str("action_input", "none")])
        ELSE IF Str("action", "none") \in DOMAIN tool_call
        THEN JsonToolCall("none", tool_call[Str("action", "none")], None)
        ELSE JsonToolCall("ValueError", None, None)

\* str.split: the pieces between the occurrences of the marker
RECURSIVE Split(_, _)
Split(s, marker) ==
    IF Positions(s, marker) = {} THEN <<s>>
    ELSE LET i == SetMin(Positions(s, marker))
         IN  <<SubSeq(s, 1, i - 1)>> \o Split(SubSeq(s, i + 1, Len(s)), marker)

\* .replace('"', ""): a literal loses its quotes, and an escaped quote in it
\* leaves its backslash
RemoveQuotes(s) ==
    [i \in DOMAIN s |->
        IF s[i].k = "string"
        THEN Word(s[i].text, IF s[i].quote = "escaped" THEN "backslash" ELSE s[i].quote)
        ELSE s[i]]

\* .replace("\\", "")
RemoveBackslashes(s) ==
    [i \in DOMAIN s |-> IF s[i].quote = "backslash" THEN [s[i] EXCEPT !.quote = "none"]
                        ELSE s[i]]

TextToolCall(err, tool_name, form, data, text) ==
    [err |-> err, tool_name |-> tool_name,
     tool_input |-> [form |-> form, data |-> data, text |-> text]]

\* the end of parse_text_tool_call: the two pieces made the name and the input
ToolCallOf(tool_name, tool_input) ==
    IF LBrace \in Range(tool_input)
    THEN LET r == parse_json_blob(tool_input)
         IN  IF r.err # "none" THEN TextToolCall("ValueError", <<>>, "none", None, <<>>)
             ELSE TextToolCall("none", RemoveBackslashes(RemoveQuotes(tool_name)),
                               "json", r.data, <<>>)
    ELSE TextToolCall("none", RemoveBackslashes(RemoveQuotes(tool_name)),
                      "text", None, RemoveQuotes(tool_input))

\* parse_text_tool_call
parse_text_tool_call(text) ==
    LET text1 == IF ObservationMarker \in Range(text)
                 THEN Split(text, ObservationMarker)[1] ELSE text
        text2 == IF ActionMarker \in Range(text1)
                 THEN Split(text1, ActionMarker)[2] ELSE text1
        parts == Split(text2, ActionInputMarker)
    IN  IF Len(parts) # 2 THEN TextToolCall("ValueError", <<>>, "none", None, <<>>)
        ELSE ToolCallOf(parts[1], parts[2])

\* a JSON document: a string, null, or an object given by its members in
\* the order they are written
StrDoc(text, quote) == [t |-> "str", text |-> text, quote |-> quote, members |-> <<>>]

NullDoc == [t |-> "null", text |-> "", quote |-> "none", members |-> <<>>]

ObjDoc(members) == [t |-> "object", text |-> "", quote |-> "none", members |-> members]

Member(key, val) == [key |-> key, val |-> val]

\* the text of a document
RECURSIVE Serialize(_), SerializeMembers(_, _)
Serialize(doc) ==
    IF doc.t = "str"
    THEN <<Lit(doc.text, IF doc.quote = "dquote" THEN "escaped" ELSE doc.quote)>>
    ELSE IF doc.t = "null" THEN <<NullTok>>
    ELSE <<LBrace>> \o SerializeMembers(doc.members, 1) \o <<RBrace>>

SerializeMembers(members, i) ==
    IF i > Len(members) THEN <<>>
    ELSE <<Lit(members[i].key, "none"), Colon>> \o Serialize(members[i].val)
            \o (IF i < Len(members) THEN <<Comma>> ELSE <<>>)
            \o SerializeMembers(members, i + 1)

\* the value a document denotes
RECURSIVE ValueOf(_), ValueOfMembers(_, _)
ValueOf(doc) ==
    IF doc.t = "str" THEN Str(doc.text, doc.quote)
    ELSE IF doc.t = "null" THEN None
    ELSE Dict(ValueOfMembers(doc.members, Len(doc.members)))

ValueOfMembers(members, n) ==
    IF n = 0 THEN EmptyDict
    ELSE Put(ValueOfMembers(members, n - 1), Str(members[n].key, "none"),
             ValueOf(members[n].val))

\* longest noise around an embedded object, prefix and suffix together
MaxNoise == 2
\* how many markers a text handed to the text parser holds
MaxMarkers == 3

ActionDocs == {StrDoc("foo", "none"), StrDoc("foo", "dquote")}

InputDocs ==
    {NullDoc, StrDoc("bar", "none"), ObjDoc(<<>>), ObjDoc(<<Member("x", StrDoc("1", "none"))>>)}

\* the well-formed objects with an action key, with and without action_input
ToolCallDocs ==
    {ObjDoc(<<Member("action", a)>>) : a \in ActionDocs}
        \cup {ObjDoc(<<Member("action", a), Member("action_input", i)>>) :
                  a \in ActionDocs, i \in InputDocs}

NoiseTokens == {Word("thought", "none"), LBrace, RBrace, FenceJson, Fence}

\* the noise texts of at most n tokens
NoiseTexts(n) == UNION {[1..k -> NoiseTokens] : k \in 0..n}

\* the noise before and after an object, of at most n tokens together
NoisePairs(n) == UNION {NoiseTexts(k) \X NoiseTexts(n - k) : k \in 0..n}

\* an object embedded in noise
JsonInputs(n) ==
    {[for |-> "json", text |-> pq[1] \o Serialize(obj) \o pq[2], object |-> obj,
      prefix |-> pq[1], suffix |-> pq[2]] : obj \in ToolCallDocs, pq \in NoisePairs(n)}

Markers == {ActionMarker, ActionInputMarker, ObservationMarker}

Segments == {<<>>, <<Lit("foo", "none")>>, Serialize(ObjDoc(<<Member("x", StrDoc("1", "none"))>>))}

\* the texts made of segments separated by k markers
RECURSIVE MarkedTexts(_)
MarkedTexts(k) ==
    IF k = 0 THEN Segments
    ELSE {t \o <<m>> \o seg : t \in MarkedTexts(k - 1), m \in Markers, seg \in Segments}

\* the texts of at most n markers
TextInputs(n) ==
    {[for |-> "text", text |-> t, object |-> NullDoc, prefix |-> <<>>, suffix |-> <<>>] :
        t \in UNION {MarkedTexts(k) : k \in 0..n}}

ParseJsonToolCall ==
    /\ parsed.by = "none" /\ parsed.input.for = "json"
    /\ parsed' = [parsed EXCEPT !.by = "parse_json_tool_call",
                                !.out = parse_json_tool_call(parsed.input.text)]
    /\ UNCHANGED <<tbVars, execVars, runVars, memory, agentVars>>

ParseTextToolCall ==
    /\ parsed.by = "none" /\ parsed.input.for = "text"
    /\ parsed' = [parsed EXCEPT !.by = "parse_text_tool_call",
                                !.out = parse_text_tool_call(parsed.input.text)]
    /\ UNCHANGED <<tbVars, execVars, runVars, memory, agentVars>>

\* a model output about to be parsed
InitParse ==
    /\ toolboxes = EmptyDict
    /\ NoToolboxHistory
    /\ NoExecution
    /\ system_prompt_template = <<>>
    /\ system_prompt = NoPrompt
    /\ task = NoTask
    /\ logs = <<>>
    /\ pc = "Idle"
    /\ run = NoRun
    /\ llm_output = <<>>
    /\ code_action = <<>>
    /\ result = NoResult
    /\ phases = <<>>
    /\ calls = NoCalls
    /\ memory = NoMemory
    /\ agents = EmptyDict
    /\ construction = NoConstruction
    /\ parsed \in {[input |-> i, by |-> "none", out |-> [err |-> "none"]] :
                      i \in JsonInputs(MaxNoise) \cup TextInputs(MaxMarkers)}

NextParse == ParseJsonToolCall \/ ParseTextToolCall

SpecParse == InitParse /\ [][NextParse]_vars

\* C13: for any well-formed JSON object with an action key and any noise
\* before and after it, noise holding braces included, parse_json_tool_call
\* returns exactly that object's action and action_input, the latter as None
\* when the key is absent.
C13_JsonBlobExtractsEmbeddedObject ==
    parsed.by = "parse_json_tool_call" =>
        LET d == ValueOf(parsed.input.object).d
        IN  /\ parsed.out.err = "none"
            /\ parsed.out.action = d[Str("action", "none")]
            /\ parsed.out.action_input =
                  IF Str("action_input", "none") \in DOMAIN d
                  THEN d[Str("action_input", "none")] ELSE None

\* C14: parse_text_tool_call discards everything from the first Observation:
\* on, takes everything after the last Action: of what remains, also when
\* Action: occurs more than once, and splits that on Action input: into the
\* tool name and the tool input.
C14_TextToolCallTakesLastAction ==
    parsed.by = "parse_text_tool_call" =>
        LET text == parsed.input.text
            kept == IF ObservationMarker \in Range(text)
                    THEN SubSeq(text, 1, SetMin(Positions(text, ObservationMarker)) - 1)
                    ELSE text
            rest == IF ActionMarker \in Range(kept)
                    THEN SubSeq(kept, SetMax(Positions(kept, ActionMarker)) + 1, Len(kept))
                    ELSE kept
            parts == Split(rest, ActionInputMarker)
        IN  Len(parts) = 2 => parsed.out = ToolCallOf(parts[1], parts[2])

====
